---- MODULE Spec2Model ----
(***************************************************************************)
(* Model of recoverable-spawn (src/src/thread/sync.rs, type.rs, trait.rs). *)
(*                                                                         *)
(* A caller thread (CallerTid) calls one of the three launchers.  Each      *)
(* successful call creates one launch: a new thread (Tid of the launch's   *)
(* index) that runs the launcher's closure.  A callable's behaviour        *)
(* (return or panic with a payload) is chosen when its invocation ends.    *)
(* Values whose destructor may panic (a payload of arbitrary type, a       *)
(* callable's captured state) are dropped where the Rust code drops them.  *)
(***************************************************************************)
EXTENDS Integers, Sequences, FiniteSets, TLC

\* Number of launcher calls the caller makes.
MaxLaunches == 1

\* Number of launcher calls the caller makes when launches run side by side.
MaxConcurrent == 2

\* Thread ids: the caller, and the thread spawned for launch i.
CallerTid == <<"caller">>
Tid(i) == <<"spawned", i>>

\* Message texts a panic can carry (panic!("") carries the empty text).
Texts == {"", "boom"}

\* The three launchers.
Variants == {"recoverable_spawn", "recoverable_spawn_catch", "recoverable_spawn_catch_finally"}

\* type.rs:8  BoxAnySend = Box<dyn Any + Send>: a value of some type.  Only a
\* value of another type than &str and String can have a panicking Drop.
BoxAnySend ==
    [shape : {"&str", "String"}, text : Texts, dropPanics : {FALSE}]
    \cup [shape : {"other"}, text : {""}, dropPanics : BOOLEAN]

\* What one invocation of a callable does: it returns, or it panics.
Return == <<"return">>
Panic(p) == <<"panic", p>>
Behaviours == {Return} \cup {Panic(p) : p \in BoxAnySend}

\* type.rs:14  SpawnResult = Result<(), BoxAnySend>
Ok == <<"Ok">>
Err(p) == <<"Err", p>>
NoResult == <<>>
IsOk(r) == r = Ok
IsErr(r) == Len(r) = 2 /\ r[1] = "Err"
SpawnResult == {Ok} \cup {Err(p) : p \in BoxAnySend}

\* sync.rs:9, 20  std::panic::catch_unwind around the invocation.
catch_unwind(beh) == IF beh = Return THEN Ok ELSE Err(beh[2])

\* Any::downcast_ref::<T>(): <<v>> for Some(v), <<>> for None.
downcast_ref(err, ty) == IF err.shape = ty THEN <<err.text>> ELSE <<>>

\* sync.rs:34  format!("{:?}", err) of a Box<dyn Any + Send>.
DebugAny == "Any { .. }"

\* A normalizer that knows only the &str shape.
spawn_error_to_string_strOnly(err) ==
    IF downcast_ref(err, "&str") # <<>>
    THEN [probes |-> <<"&str">>, value |-> downcast_ref(err, "&str")[1]]
    ELSE [probes |-> <<"&str">>, value |-> DebugAny]

\* sync.rs:30-36  the match of spawn_error_to_string: the downcasts it
\* attempts, in order, and the String it builds.
spawn_error_to_string(err) ==
    IF downcast_ref(err, "&str") # <<>>
    THEN [probes |-> <<"&str">>, value |-> downcast_ref(err, "&str")[1]]
    ELSE IF downcast_ref(err, "String") # <<>>
         THEN [probes |-> <<"&str", "String">>, value |-> downcast_ref(err, "String")[1]]
         ELSE [probes |-> <<"&str", "String">>, value |-> DebugAny]

\* sync.rs:29, 37  err is taken by value and dropped when the function ends:
\* the call returns the String, or unwinds when that drop panics.
spawn_error_to_string_call(err) ==
    [err |-> err,
     probes |-> spawn_error_to_string(err).probes,
     out |-> IF err.dropPanics THEN <<"panicked">>
             ELSE <<"returned", spawn_error_to_string(err).value>>]

\* The callables a launcher's closure captures.
Captured(variant) ==
    CASE variant = "recoverable_spawn" -> {"function"}
      [] variant = "recoverable_spawn_catch" -> {"function", "error_handle_function"}
      [] variant = "recoverable_spawn_catch_finally" -> {"function", "error_handle_function", "finally"}

\* Destructor outcomes of one step: callee = the callable owned by
\* run_function / run_error_handle_function panics when dropped at the end of
\* that function; cleanup = a callable still captured by the closure panics
\* when dropped during unwinding; retplace = the build drops the result
\* already in the return place when the callee's drop unwinds.
DropChoices == [callee : BOOLEAN, cleanup : BOOLEAN, retplace : BOOLEAN]

VARIABLES
    launches,        \* one record per created thread
    joinResult,      \* per launch: "None", "Waiting" inside join(), then "Ok" or "Err"
    callerPanicked   \* the launcher call itself panicked on the caller

vars == <<launches, joinResult, callerPanicked>>

Ids == 1..Len(launches)

Aborted == \E i \in Ids : launches[i].pc = "Aborted"

\* The caller is blocked while it waits in join().
CallerBlocked == \E i \in Ids : joinResult[i] = "Waiting"

CallerRuns == ~callerPanicked /\ ~Aborted /\ ~CallerBlocked

Init ==
    /\ launches = <<>>
    /\ joinResult = <<>>
    /\ callerPanicked = FALSE

\* The log of a launch: positions where callable `name` was invoked / ended.
BeginsOf(L, name) == {k \in DOMAIN L.log : L.log[k][1] = "begin" /\ L.log[k][2] = name}
EndsOf(L, name) == {k \in DOMAIN L.log : L.log[k][1] = "end" /\ L.log[k][2] = name}
Calls(L, name) == Cardinality(BeginsOf(L, name))

\* A launcher that runs the work on the calling thread before it returns.
NewLaunch_inline(variant) ==
    [variant |-> variant,
     pc |-> "RunningWork",
     captured |-> Captured(variant) \ {"function"},
     work_behaviour |-> NoResult,
     run_result |-> NoResult,
     handler_result |-> NoResult,
     finally_result |-> NoResult,
     normalized |-> <<>>,
     handlerArgs |-> <<>>,
     log |-> << <<"begin", "function", CallerTid>> >>,
     panic_site |-> "none"]

\* State of a thread just created by std::thread::spawn.
NewLaunch(variant) ==
    [variant |-> variant,
     pc |-> "Started",
     captured |-> Captured(variant),
     work_behaviour |-> NoResult,
     run_result |-> NoResult,
     handler_result |-> NoResult,
     finally_result |-> NoResult,
     normalized |-> <<>>,
     handlerArgs |-> <<>>,
     log |-> <<>>,
     panic_site |-> "none"]

\* sync.rs:57-64, 71-83, 85-103  the launcher: spawn(closure) and return the
\* JoinHandle.  Nothing of the closure runs in the call.
Spawn(variant) ==
    /\ CallerRuns
    /\ Len(launches) < MaxLaunches
    /\ launches' = Append(launches, NewLaunch(variant))
    /\ joinResult' = Append(joinResult, "None")
    /\ UNCHANGED callerPanicked

\* sync.rs:61, 76, 95  std::thread::spawn panics when the OS cannot create
\* the thread.
SpawnFail(variant) ==
    /\ CallerRuns
    /\ Len(launches) < MaxLaunches
    /\ callerPanicked' = TRUE
    /\ UNCHANGED <<launches, joinResult>>

\* A panic raised at `site` unwinds out of the closure: the callables the
\* closure still captures are dropped; a second panic while unwinding aborts
\* the process.  r is the result sitting in the return place, if any.
Unwind(L, site, r, d) ==
    [L EXCEPT !.pc = IF \/ (d.cleanup /\ L.captured # {})
                        \/ (d.retplace /\ IsErr(r) /\ r[2].dropPanics)
                     THEN "Aborted" ELSE "Escaped",
              !.panic_site = site,
              !.captured = {}]

\* sync.rs:63, 82, 102  the closure body ends: the callables it still
\* captures are dropped.
ClosureEnd(L, d) ==
    IF d.cleanup /\ L.captured # {}
    THEN [L EXCEPT !.pc = "Escaped", !.panic_site = "closure end", !.captured = {}]
    ELSE [L EXCEPT !.pc = "Done", !.captured = {}]

\* sync.rs:62, 80, 99, 101  `let _: SpawnResult = r;` drops r where it stands.
DiscardPanics(r) == IsErr(r) /\ r[2].dropPanics

\* A callable is moved out of the closure into the function that calls it.
BeginCall(L, name, tid) ==
    [L EXCEPT !.log = Append(@, <<"begin", name, tid>>),
              !.captured = @ \ {name}]

EndCall(L, name, tid) ==
    [L EXCEPT !.log = Append(@, <<"end", name, tid>>)]

\* sync.rs:62, 77, 96 -> 8-10  the thread starts and run_function calls func.
WorkBegin(i) ==
    /\ ~Aborted
    /\ launches[i].pc = "Started"
    /\ launches' = [launches EXCEPT ![i] =
           [BeginCall(@, "function", Tid(i)) EXCEPT !.pc = "RunningWork"]]
    /\ UNCHANGED <<joinResult, callerPanicked>>

\* A closure that starts the finalizer without waiting for the handler.
HandlerStart_overlap(L, i, err_string) ==
    LET H == [BeginCall(L, "error_handle_function", Tid(i)) EXCEPT
                 !.pc = "FailedRunningHandler",
                 !.handlerArgs = Append(@, err_string)]
    IN IF L.variant = "recoverable_spawn_catch_finally"
       THEN BeginCall(H, "finally", Tid(i))
       ELSE H

\* sync.rs:19-21  run_error_handle_function calls func(error).
HandlerStart(L, i, err_string) ==
    [BeginCall(L, "error_handle_function", Tid(i)) EXCEPT
        !.pc = "FailedRunningHandler",
        !.handlerArgs = Append(@, err_string)]

\* sync.rs:78-80, 97-99  `if let Err(err)`: normalize, then call the handler.
CatchBranch(L, i, err, d) ==
    LET c == spawn_error_to_string_call(err)
        N == [L EXCEPT !.normalized = Append(@, c)]
    IN IF c.out[1] = "panicked"
       THEN Unwind(N, "spawn_error_to_string", NoResult, d)
       ELSE HandlerStart(N, i, c.out[2])

\* A runner that calls the work again after it panicked.
WorkEndState_retry(L, i, beh, d) ==
    LET E == [EndCall(L, "function", Tid(i)) EXCEPT !.work_behaviour = beh,
                                                    !.run_result = catch_unwind(beh)]
    IN IF beh # Return /\ Calls(L, "function") < 2
       THEN [BeginCall(E, "function", Tid(i)) EXCEPT !.pc = "RunningWork"]
       ELSE [E EXCEPT !.pc = "Done", !.captured = {}]

\* sync.rs:9-12 and the closure up to its next call: func returns or panics,
\* catch_unwind makes the SpawnResult, func is dropped, the closure goes on.
WorkEndState(L, i, beh, d) ==
    LET r == catch_unwind(beh)
        E == [EndCall(L, "function", Tid(i)) EXCEPT !.work_behaviour = beh]
        R == [E EXCEPT !.run_result = r]
    IN IF d.callee
       THEN Unwind(E, "run_function(function)", r, d)
       ELSE IF L.variant = "recoverable_spawn"
            THEN IF DiscardPanics(r)
                 THEN Unwind(R, "discard run_result", NoResult, d)
                 ELSE ClosureEnd(R, d)
            ELSE IF IsOk(r)
                 THEN [R EXCEPT !.pc = "Succeeded"]
                 ELSE CatchBranch(R, i, r[2], d)

WorkEnd(i, beh, d) ==
    /\ ~Aborted
    /\ launches[i].pc = "RunningWork"
    /\ launches' = [launches EXCEPT ![i] = WorkEndState(@, i, beh, d)]
    /\ UNCHANGED <<joinResult, callerPanicked>>

\* sync.rs:101 -> 8-10  run_function(finally) calls func.
FinallyStart(L, i) ==
    [BeginCall(L, "finally", Tid(i)) EXCEPT !.pc = "RunningFinalizer"]

\* A closure that reports the handler's own panic to the handler again.
HandlerEndState_escalate(L, i, beh, d) ==
    LET r == catch_unwind(beh)
        E == [EndCall(L, "error_handle_function", Tid(i)) EXCEPT !.handler_result = <<r[1]>>]
    IN IF IsErr(r) /\ Len(L.handlerArgs) < 2
       THEN HandlerStart([E EXCEPT !.normalized = Append(@, spawn_error_to_string_call(r[2]))],
                         i, spawn_error_to_string(r[2]).value)
       ELSE [E EXCEPT !.pc = "Done", !.captured = {}]

\* sync.rs:20-23, 80, 99  the handler returns or panics; its result is
\* discarded; recoverable_spawn_catch_finally goes on to the finalizer.
HandlerEndState(L, i, beh, d) ==
    LET r == catch_unwind(beh)
        E == EndCall(L, "error_handle_function", Tid(i))
        R == [E EXCEPT !.handler_result = <<r[1]>>]
    IN IF d.callee
       THEN Unwind(E, "run_error_handle_function", r, d)
       ELSE IF DiscardPanics(r)
            THEN Unwind(R, "discard handler result", NoResult, d)
            ELSE IF L.variant = "recoverable_spawn_catch_finally"
                 THEN FinallyStart(R, i)
                 ELSE ClosureEnd(R, d)

HandlerEnd(i, beh, d) ==
    /\ ~Aborted
    /\ launches[i].pc = "FailedRunningHandler"
    /\ launches' = [launches EXCEPT ![i] = HandlerEndState(@, i, beh, d)]
    /\ UNCHANGED <<joinResult, callerPanicked>>

\* sync.rs:78-82, 97-101  the work succeeded: the `if let` is skipped.
SucceededStep(i, d) ==
    /\ ~Aborted
    /\ launches[i].pc = "Succeeded"
    /\ launches' = [launches EXCEPT ![i] =
           IF @.variant = "recoverable_spawn_catch_finally"
           THEN FinallyStart(@, i)
           ELSE ClosureEnd(@, d)]
    /\ UNCHANGED <<joinResult, callerPanicked>>

\* sync.rs:101-102  the finalizer returns or panics; its result is discarded
\* and the closure ends.
FinallyEndState(L, i, beh, d) ==
    LET r == catch_unwind(beh)
        E == EndCall(L, "finally", Tid(i))
        R == [E EXCEPT !.finally_result = <<r[1]>>]
    IN IF d.callee
       THEN Unwind(E, "run_function(finally)", r, d)
       ELSE IF DiscardPanics(r)
            THEN Unwind(R, "discard finally result", NoResult, d)
            ELSE ClosureEnd(R, d)

FinallyEnd(i, beh, d) ==
    /\ ~Aborted
    /\ launches[i].pc = "RunningFinalizer"
    /\ launches' = [launches EXCEPT ![i] = FinallyEndState(@, i, beh, d)]
    /\ UNCHANGED <<joinResult, callerPanicked>>

\* The caller calls JoinHandle::join() on the handle of launch i and blocks.
JoinCall(i) ==
    /\ CallerRuns
    /\ joinResult[i] = "None"
    /\ joinResult' = [joinResult EXCEPT ![i] = "Waiting"]
    /\ UNCHANGED <<launches, callerPanicked>>

\* join() returns once the thread has ended: Err if it ended by a panic.
JoinReturn(i) ==
    /\ ~Aborted
    /\ joinResult[i] = "Waiting"
    /\ launches[i].pc \in {"Done", "Escaped"}
    /\ joinResult' = [joinResult EXCEPT ![i] =
           IF launches[i].pc = "Done" THEN "Ok" ELSE "Err"]
    /\ UNCHANGED <<launches, callerPanicked>>

Next ==
    \/ \E v \in Variants : Spawn(v)
    \/ \E v \in Variants : SpawnFail(v)
    \/ \E i \in Ids : WorkBegin(i)
    \/ \E i \in Ids, beh \in Behaviours, d \in DropChoices : WorkEnd(i, beh, d)
    \/ \E i \in Ids, beh \in Behaviours, d \in DropChoices : HandlerEnd(i, beh, d)
    \/ \E i \in Ids, d \in DropChoices : SucceededStep(i, d)
    \/ \E i \in Ids, beh \in Behaviours, d \in DropChoices : FinallyEnd(i, beh, d)
    \/ \E i \in Ids : JoinCall(i)
    \/ \E i \in Ids : JoinReturn(i)

Spec == Init /\ [][Next]_vars

\* sync.rs:57-64, 71-83, 85-103  the caller calls launchers one after the
\* other without joining in between: the spawned threads run side by side.
SpawnConcurrent(variant) ==
    /\ CallerRuns
    /\ Len(launches) < MaxConcurrent
    /\ launches' = Append(launches, NewLaunch(variant))
    /\ joinResult' = Append(joinResult, "None")
    /\ UNCHANGED callerPanicked

\* sync.rs:61, 76, 95  std::thread::spawn panics in one of those calls.
SpawnConcurrentFail(variant) ==
    /\ CallerRuns
    /\ Len(launches) < MaxConcurrent
    /\ callerPanicked' = TRUE
    /\ UNCHANGED <<launches, joinResult>>

NextConcurrent ==
    \/ \E v \in Variants : SpawnConcurrent(v)
    \/ \E v \in Variants : SpawnConcurrentFail(v)
    \/ \E i \in Ids : WorkBegin(i)
    \/ \E i \in Ids, beh \in Behaviours, d \in DropChoices : WorkEnd(i, beh, d)
    \/ \E i \in Ids, beh \in Behaviours, d \in DropChoices : HandlerEnd(i, beh, d)
    \/ \E i \in Ids, d \in DropChoices : SucceededStep(i, d)
    \/ \E i \in Ids, beh \in Behaviours, d \in DropChoices : FinallyEnd(i, beh, d)
    \/ \E i \in Ids : JoinCall(i)
    \/ \E i \in Ids : JoinReturn(i)

SpecConcurrent == Init /\ [][NextConcurrent]_vars

TypeOK ==
    /\ callerPanicked \in BOOLEAN
    /\ Len(joinResult) = Len(launches)
    /\ \A i \in Ids : launches[i].variant \in Variants

----
\* Observations on a launch.

CatchVariants == {"recoverable_spawn_catch", "recoverable_spawn_catch_finally"}

\* The thread of the launch has ended, one way or another.
Ended(L) == L.pc \in {"Done", "Escaped", "Aborted"}

WorkEnded(L) == L.work_behaviour # NoResult
WorkFaulted(L) == WorkEnded(L) /\ L.work_behaviour # Return

----
\* C1: in every launcher and for every outcome of work, handler and
\* finalizer, no fault escapes the spawned thread: the thread ends normally
\* and join never reports a fault.
C1_NoFaultEscapes ==
    \A i \in Ids :
        /\ launches[i].pc \notin {"Escaped", "Aborted"}
        /\ joinResult[i] # "Err"

\* C2: in recoverable_spawn_catch_finally the finalizer is invoked exactly
\* once per launch, whatever the work and the handler did, and it begins only
\* after the work (and the handler, when the work faulted) has completed.
C2_FinalizerExactlyOnce ==
    \A i \in Ids :
        LET L == launches[i] IN
        L.variant = "recoverable_spawn_catch_finally" =>
            /\ Calls(L, "finally") <= 1
            /\ Ended(L) => Calls(L, "finally") = 1
            /\ \A k \in BeginsOf(L, "finally") :
                  /\ \E e \in EndsOf(L, "function") : e < k
                  /\ WorkFaulted(L) => \E e \in EndsOf(L, "error_handle_function") : e < k

\* C3: in the two catching launchers the handler is invoked if and only if
\* the work faulted, and it receives the normalized string of the work's
\* payload.
C3_HandlerIffWorkFaulted ==
    \A i \in Ids :
        LET L == launches[i] IN
        L.variant \in CatchVariants =>
            /\ (Calls(L, "error_handle_function") >= 1) <=> WorkFaulted(L)
            /\ Len(L.handlerArgs) = Calls(L, "error_handle_function")
            /\ \A k \in DOMAIN L.handlerArgs :
                  L.handlerArgs[k] = spawn_error_to_string(L.work_behaviour[2]).value

\* C4: run_function invokes the work once and returns Ok exactly when the
\* work returned, Err(payload) exactly when the work panicked with that
\* payload; nothing propagates to its caller.
C4_RunFunctionOutcome ==
    \A i \in Ids :
        LET L == launches[i] IN
        WorkEnded(L) =>
            /\ Calls(L, "function") = 1
            /\ L.run_result \in SpawnResult
            /\ L.run_result = Ok <=> L.work_behaviour = Return
            /\ L.work_behaviour # Return => L.run_result = Err(L.work_behaviour[2])

\* C7: for every payload that is neither a &str nor a String,
\* spawn_error_to_string returns a non-empty string and never panics.
C7_FallbackNeverFaults ==
    \A i \in Ids :
        \A k \in DOMAIN launches[i].normalized :
            LET c == launches[i].normalized[k] IN
            c.err.shape = "other" =>
                /\ c.out[1] = "returned"
                /\ c.out[2] # ""

\* The thread of launch i can take a step.
ThreadCanStep(i) ==
    /\ ~Aborted
    /\ launches[i].pc \in {"Started", "RunningWork", "Succeeded",
                           "FailedRunningHandler", "RunningFinalizer"}

\* C9: Done is the only state a launch can stop in: a launch whose thread has
\* no further step has reached Done, through the stages of its variant.
C9_DoneIsOnlyTerminal ==
    \A i \in Ids :
        LET L == launches[i] IN
        /\ L.pc \in {"Started", "RunningWork", "Succeeded",
                     "FailedRunningHandler", "RunningFinalizer", "Done"}
        /\ ~ThreadCanStep(i) => L.pc = "Done"

\* C5: the handler is invoked at most once per launch; when it panics, the
\* panic is caught as a result that is discarded: once the handler has been
\* invoked nothing more is normalized and nothing more is handed to it, and
\* the only payload ever normalized is the work's.
C5_HandlerAtMostOnce ==
    /\ [](\A i \in Ids :
            LET L == launches[i] IN
            /\ Calls(L, "error_handle_function") <= 1
            /\ Len(L.handlerArgs) <= 1
            /\ Len(L.normalized) <= 1
            /\ \A k \in DOMAIN L.normalized : L.normalized[k].err = L.work_behaviour[2])
    /\ [][\A i \in Ids :
            Calls(launches[i], "error_handle_function") >= 1 =>
                /\ launches'[i].normalized = launches[i].normalized
                /\ launches'[i].handlerArgs = launches[i].handlerArgs
                /\ Calls(launches'[i], "error_handle_function") = 1]_vars

\* The handler panicked, its panic was caught, and the launch went on to Done.
C5_Witness ==
    \E i \in Ids :
        /\ launches[i].handler_result = <<"Err">>
        /\ launches[i].pc = "Done"
        /\ Calls(launches[i], "error_handle_function") = 1

\* C6: spawn_error_to_string returns exactly the text of a &str payload and
\* exactly the text of a String payload; it tries the &str shape first and
\* the String shape only after that.
C6_StringPayloadsVerbatim ==
    \A i \in Ids :
        \A k \in DOMAIN launches[i].normalized :
            LET c == launches[i].normalized[k] IN
            /\ c.err.shape \in {"&str", "String"} => c.out = <<"returned", c.err.text>>
            /\ c.probes[1] = "&str"
            /\ c.err.shape # "&str" => c.probes = <<"&str", "String">>
            /\ c.err.shape = "&str" => c.probes = <<"&str">>

\* An owned String "boom" was normalized, and the handler was given "boom".
C6_Witness ==
    \E i \in Ids :
        /\ Len(launches[i].normalized) = 1
        /\ launches[i].normalized[1].err.shape = "String"
        /\ launches[i].normalized[1].err.text = "boom"
        /\ launches[i].handlerArgs = <<"boom">>

\* C8: a launcher returns its handle before any stage of the launch has
\* begun, and no invocation of work, handler or finalizer runs on the calling
\* thread: each runs on the thread spawned for its launch.
C8_LauncherDoesNotBlock ==
    /\ [](\A i \in Ids :
            \A k \in DOMAIN launches[i].log : launches[i].log[k][3] = Tid(i))
    /\ [][Len(launches') > Len(launches) =>
            /\ launches'[Len(launches')].pc = "Started"
            /\ launches'[Len(launches')].log = <<>>
            /\ joinResult'[Len(launches')] = "None"
            /\ ~callerPanicked']_vars

\* The caller has gone on to its next call while the work is still running.
C8_Witness ==
    \E i \in Ids :
        /\ launches[i].pc = "RunningWork"
        /\ joinResult[i] = "Waiting"

\* C10: in all three launchers the work is invoked exactly once per launch,
\* whether it returns or panics: never before the thread starts, once from
\* then on.
C10_WorkExactlyOnce ==
    \A i \in Ids :
        LET L == launches[i] IN
        /\ Calls(L, "function") = IF L.pc = "Started" THEN 0 ELSE 1
        /\ Cardinality(EndsOf(L, "function")) <= 1

\* The work panicked, the thread has ended, and the work was invoked once.
C10_Witness ==
    \E i \in Ids :
        /\ WorkFaulted(launches[i])
        /\ Ended(launches[i])
        /\ Calls(launches[i], "function") = 1

\* C11: concurrent launches are independent: a step of one launch leaves
\* every other launch as it was, and a launch that has not ended can always
\* take its next stage, whatever faults the other launches have had.
C11_LaunchesIndependent ==
    /\ [](\A i \in Ids : ~Ended(launches[i]) => ThreadCanStep(i))
    /\ [][\A i \in Ids, j \in Ids :
            (i # j /\ launches'[j] # launches[j]) => launches'[i] = launches[i]]_vars

\* C12: the launcher call itself never panics on the calling thread, whatever
\* the thread-creation step does.
C12_LauncherNeverPanics == ~callerPanicked

\* C13: within one launch the stages run one after the other on the one
\* spawned thread: a stage begins only when no other is running, the handler
\* right after the work ended with a fault, the finalizer right after the
\* work ended without a fault or after the handler ended.
C13_StagesSequential ==
    \A i \in Ids :
        LET L == launches[i]
            open == Cardinality({k \in DOMAIN L.log : L.log[k][1] = "begin"})
                    - Cardinality({k \in DOMAIN L.log : L.log[k][1] = "end"})
        IN
        /\ open \in {0, 1}
        /\ \A k \in DOMAIN L.log :
              /\ L.log[k][3] = Tid(i)
              /\ (k > 1 /\ L.log[k][1] = "begin") => L.log[k-1][1] = "end"
              /\ L.log[k][1] = "end" =>
                    k > 1 /\ L.log[k-1] = <<"begin", L.log[k][2], L.log[k][3]>>
              /\ L.log[k] = <<"begin", "function", Tid(i)>> => k = 1
              /\ L.log[k] = <<"begin", "error_handle_function", Tid(i)>> =>
                    /\ k > 1 /\ L.log[k-1][2] = "function"
                    /\ WorkFaulted(L)
              /\ L.log[k] = <<"begin", "finally", Tid(i)>> =>
                    /\ k > 1
                    /\ \/ L.log[k-1][2] = "function" /\ L.work_behaviour = Return
                       \/ L.log[k-1][2] = "error_handle_function"

\* A launch ran work, handler and finalizer, all three to their end.
C13_Witness ==
    \E i \in Ids :
        /\ Len(launches[i].log) = 6
        /\ launches[i].pc = "Done"

\* C14: every step of the spawned closure that can fault is guarded,
\* including the discarding of the captured payload and of the callables: no
\* panic is ever raised on the spawned thread outside a containment frame.
C14_AllStepsGuarded ==
    \A i \in Ids : launches[i].panic_site = "none"

\* C15: join returns only after the launch has reached Done: the work has
\* ended, the handler has ended if the work faulted, the finalizer of
\* recoverable_spawn_catch_finally has ended, and nothing of the launch
\* changes after the join has returned.
C15_JoinAfterDone ==
    /\ [](\A i \in Ids :
            LET L == launches[i] IN
            joinResult[i] \in {"Ok", "Err"} =>
                /\ L.pc = "Done"
                /\ EndsOf(L, "function") # {}
                /\ (L.variant \in CatchVariants /\ WorkFaulted(L)) =>
                       EndsOf(L, "error_handle_function") # {}
                /\ L.variant = "recoverable_spawn_catch_finally" =>
                       EndsOf(L, "finally") # {})
    /\ [][\A i \in Ids :
            joinResult[i] \in {"Ok", "Err"} => launches'[i] = launches[i]]_vars

\* The invocations of a launch, in order, without the thread id.
Stages(L) == [k \in DOMAIN L.log |-> <<L.log[k][1], L.log[k][2]>>]

\* C16: a recoverable_spawn_catch_finally launch does what a
\* recoverable_spawn_catch launch with the same work and handler outcomes
\* does, followed by exactly one run of the finalizer.
C16_CatchThenFinally ==
    \A i \in Ids, j \in Ids :
        LET A == launches[i]
            B == launches[j]
        IN (/\ A.variant = "recoverable_spawn_catch"
            /\ B.variant = "recoverable_spawn_catch_finally"
            /\ Ended(A) /\ Ended(B)
            /\ A.work_behaviour = B.work_behaviour
            /\ A.handler_result = B.handler_result)
           => /\ Stages(B) = Stages(A) \o << <<"begin", "finally">>, <<"end", "finally">> >>
              /\ B.handlerArgs = A.handlerArgs

====
